---- MODULE Spec2Model ----
(***************************************************************************)
(* Model of scraper_and_importer.js: the fetch - normalize - convert -    *)
(* load pipeline of the bookaway route scraper.                           *)
(*                                                                         *)
(* Value encodings                                                         *)
(*   - a JavaScript value that may be null/undefined is None (absent) or   *)
(*     Some(v);                                                            *)
(*   - an amount is a fixed-point number counted in 1/AmtScale units, a    *)
(*     rate one counted in 1/RateScale units; Math.round is Round;         *)
(*   - an instant (a parseable date) is an integer;                        *)
(*   - a slug is the pair <<"city", k>>, a route_url the triple             *)
(*     <<site, from, to>>.                                                 *)
(***************************************************************************)
EXTENDS Integers, Sequences, FiniteSets, TLC

None == <<>>
Some(v) == <<v>>
Val(o) == o[1]

Min(a, b) == IF a < b THEN a ELSE b

(***************************************************************************)
(* Numbers                                                                 *)
(***************************************************************************)
AmtScale == 2
RateScale == 10000

\* an amount given in whole units
Amt(n) == n * AmtScale

\* Math.round(num/den), den > 0: the nearest integer, halves towards +infinity
Round(num, den) == (2 * num + den) \div (2 * den)

\* String.prototype.toUpperCase on the currency codes of the model
toUpperCase(s) ==
    CASE s = "thb" -> "THB"
      [] s = "usd" -> "USD"
      [] s = "inr" -> "INR"
      [] s = "xxx" -> "XXX"
      [] OTHER -> s

\* rates[currency]: undefined when the table has no such key
Lookup(rates, c) == IF c \in DOMAIN rates THEN Some(rates[c]) ELSE None

\* !v for a number that may be undefined
Falsy(o) == o = None \/ Val(o) = 0

(***************************************************************************)
(* Currency converter                                                      *)
(***************************************************************************)
\* convertToINR with the rounding replaced by truncation
convertToINR_Trunc(amount, fromCurrency, rates) ==
    IF amount = 0 THEN 0
    ELSE LET currency == toUpperCase(fromCurrency)
             rate == Lookup(rates, currency)
         IN  IF currency = "INR" THEN amount \div AmtScale
             ELSE IF Falsy(rate) THEN amount \div AmtScale
             ELSE (amount * Val(rate)) \div (AmtScale * RateScale)

convertToINR(amount, fromCurrency, rates) ==
    IF amount = 0 THEN 0
    ELSE LET currency == toUpperCase(fromCurrency)
             rate == Lookup(rates, currency)
         IN  IF currency = "INR" THEN Round(amount, AmtScale)
             ELSE IF Falsy(rate) THEN Round(amount, AmtScale)
             ELSE Round(amount * Val(rate), AmtScale * RateScale)

\* the hard-coded table of the catch branch
FallbackRates ==
    [c \in {"PHP", "THB", "MAD", "TRY", "VND", "JOD", "EUR", "LKR", "EGP", "USD", "INR"} |->
        CASE c = "PHP" -> 6500
          [] c = "THB" -> 3700
          [] c = "MAD" -> 1000
          [] c = "TRY" -> 3300
          [] c = "VND" -> 2580000
          [] c = "JOD" -> 78
          [] c = "EUR" -> 93
          [] c = "LKR" -> 33200
          [] c = "EGP" -> 3100
          [] c = "USD" -> 110
          [] c = "INR" -> RateScale]

\* { ...data.rates, INR: 1 }
WithINR(t) == [c \in DOMAIN t \cup {"INR"} |-> IF c = "INR" THEN RateScale ELSE t[c]]

\* What one GET of the rate service yields.
\*   kind "network_error": fetch rejects;  "http_error": !response.ok;
\*   "malformed_json": response.json() rejects;
\*   "json": a parsed body with data.rates (None when missing) and data.success
RateOk(svc) ==
    /\ svc.kind = "json"
    /\ svc.rates # None
    /\ svc.success

\* getExchangeRates: cache is the module variable exchangeRates before the call;
\* the result carries the table returned, the variable after the call and whether
\* the rate service was contacted.
getExchangeRates(cache, svc) ==
    IF cache # None
    THEN [rates |-> Val(cache), cache |-> cache, contacted |-> FALSE]
    ELSE IF RateOk(svc)
         THEN [rates |-> WithINR(Val(svc.rates)),
               cache |-> Some(WithINR(Val(svc.rates))),
               contacted |-> TRUE]
         ELSE [rates |-> FallbackRates, cache |-> None, contacted |-> TRUE]

(***************************************************************************)
(* Route fetcher and response normalizer                                   *)
(***************************************************************************)
BASE_URL == "https://www.bookaway.com"

\* the first truthy of two strings that may be absent ("" is falsy)
OrStr(a, b) == IF a # None /\ Val(a) # "" THEN a ELSE b
\* the first truthy of two numbers that may be absent (0 is falsy)
OrNum(a, b) == IF a # None /\ Val(a) # 0 THEN a ELSE b

\* {}: a price object with no field set
NoPrice == [originalCurrency |-> None, currency |-> None,
            originalAmount |-> None, amount |-> None]

\* String.prototype.toLowerCase on the leg types of the model
toLowerCase(s) ==
    CASE s = "Minivan" -> "minivan"
      [] s = "Bus" -> "bus"
      [] s = "Ferry" -> "ferry"
      [] OTHER -> s

\* new Date(d).toISOString().replace('T', ' ').substring(0, 19): an instant in
\* milliseconds printed to the second
isoSeconds(ms) == ms \div 1000

\* the journey test with the arrival date not looked at
hasBothDates_DepartureOnly(journey) == journey.departure # None

\* !(!departure?.date || !arrival?.date)
hasBothDates(journey) == journey.departure # None /\ journey.arrival # None

\* the object pushed onto formattedRoutes for one journey
formatRoute(journey, leg, ctx) ==
    LET legType == IF leg.type = None THEN "" ELSE toLowerCase(Val(leg.type))
        priceObj == IF leg.price = None THEN NoPrice ELSE Val(leg.price)
        journeyPriceObj == IF journey.price = None THEN priceObj ELSE Val(journey.price)
        currency == toUpperCase(Val(OrStr(journeyPriceObj.originalCurrency,
                                     OrStr(journeyPriceObj.currency, Some("THB")))))
        amount == Val(OrNum(journeyPriceObj.originalAmount,
                            OrNum(journeyPriceObj.amount, Some(0))))
    IN  [route_url |-> Some(<<BASE_URL, ctx.fromSlug, ctx.toSlug>>),
         Date |-> Some(ctx.date),
         DepartureTime |-> IF journey.departure # None
                           THEN Some(isoSeconds(Val(journey.departure)))
                           ELSE None,
         ArrivalTime |-> IF journey.arrival # None
                         THEN Some(isoSeconds(Val(journey.arrival)))
                         ELSE None,
         TransportType |-> IF legType = "minivan" THEN "bus" ELSE legType,
         Price |-> Some(amount),
         price_inr |-> convertToINR(amount, currency, ctx.rates),
         currency |-> currency]

\* (leg.journeys || []).forEach(...): one pushed object per journey kept, in order
journeysLoop(leg, ctx) ==
    LET journeys == IF leg.journeys = None THEN <<>> ELSE Val(leg.journeys)
        kept == SelectSeq(journeys, hasBothDates)
    IN  [k \in 1 .. Len(kept) |-> formatRoute(kept[k], leg, ctx)]

\* trip.legs.forEach(...)
RECURSIVE legsLoop(_, _)
legsLoop(legs, ctx) ==
    IF legs = <<>> THEN <<>>
    ELSE journeysLoop(Head(legs), ctx) \o legsLoop(Tail(legs), ctx)

\* data.trips.forEach(...): a trip with no legs or an empty legs array is skipped
RECURSIVE tripsLoop(_, _)
tripsLoop(trips, ctx) ==
    IF trips = <<>> THEN <<>>
    ELSE LET trip == Head(trips)
             mine == IF trip.legs = None \/ Val(trip.legs) = <<>>
                     THEN <<>>
                     ELSE legsLoop(Val(trip.legs), ctx)
         IN  mine \o tripsLoop(Tail(trips), ctx)

\* What one POST of the search endpoint yields.
\*   kind "network_error": fetch rejects;  "http_error": !res.ok;
\*   "malformed_json": res.json() rejects;
\*   "json": a parsed body, http.data, with
\*      data.json = "null"   the JSON value null,
\*      data.json = "falsy"  one of 0, false, "",
\*      data.json = "object" an object whose trips is None (missing), or
\*                           Some([isArray, items])
Failure(fromSlug, toSlug, message) ==
    [success |-> FALSE, error |-> message, route |-> <<fromSlug, toSlug>>]

\* fetchRoutes: the tagged result, the rate cache after the call, whether the rate
\* service was contacted and the table getExchangeRates returned (None: not called)
fetchRoutes(fromSlug, toSlug, date, http, cache, svc) ==
    LET thrown(message) ==
            [result |-> Failure(fromSlug, toSlug, message),
             cache |-> cache, contacted |-> FALSE, rates |-> None]
        empty ==
            [result |-> [success |-> TRUE, data |-> <<>>],
             cache |-> cache, contacted |-> FALSE, rates |-> None]
    IN  IF http.kind # "json" THEN thrown(http.kind)
        ELSE LET data == http.data IN
             \* Object.keys(data) of the debug log throws a TypeError on null
             IF data.json = "null" THEN thrown("TypeError")
             ELSE IF data.json = "falsy" THEN empty
             ELSE IF data.trips = None \/ ~Val(data.trips).isArray THEN empty
             ELSE IF Val(data.trips).items = <<>> THEN empty
             ELSE LET r == getExchangeRates(cache, svc)
                      ctx == [fromSlug |-> fromSlug, toSlug |-> toSlug,
                              date |-> date, rates |-> r.rates]
                  IN  [result |-> [success |-> TRUE,
                                   data |-> tripsLoop(Val(data.trips).items, ctx)],
                       cache |-> r.cache, contacted |-> r.contacted,
                       rates |-> Some(r.rates)]

(***************************************************************************)
(* Batch loader: pure parts                                                *)
(***************************************************************************)
BATCH_SIZE == 400

\* the filter with the price test left out
isValidTrip_NoPriceTest(t) ==
    /\ t.Price # None
    /\ t.DepartureTime # None
    /\ t.ArrivalTime # None
    /\ t.route_url # None

\* the predicate of records.filter(...)
isValidTrip(t) ==
    /\ t.Price # None
    /\ Val(t.Price) > 0
    /\ t.DepartureTime # None
    /\ t.ArrivalTime # None
    /\ t.route_url # None

\* parseTimestamp: null for a missing value, else the instant in milliseconds
parseTimestamp(v) == IF v = None THEN None ELSE Some(Val(v) * 1000)

\* the thirteen parameters of one record (those the model carries)
toParams(t) ==
    [route_url |-> t.route_url,
     departure_time |-> parseTimestamp(t.DepartureTime),
     arrival_time |-> parseTimestamp(t.ArrivalTime),
     transport_type |-> t.TransportType,
     price |-> IF t.Price = None THEN 0 ELSE Val(t.Price),
     price_inr |-> t.price_inr,
     currency |-> t.currency,
     travel_date |-> t.Date]

\* the slice taken one record too long
batchAt_OffByOne(valid, offset) ==
    SubSeq(valid, offset + 1, Min(offset + BATCH_SIZE + 1, Len(valid)))

\* validTrips.slice(i, i + BATCH_SIZE)
batchAt(valid, offset) ==
    SubSeq(valid, offset + 1, Min(offset + BATCH_SIZE, Len(valid)))

\* batch.flatMap(...): the rows of one INSERT statement
rowsOf(batch) == [k \in 1 .. Len(batch) |-> toParams(batch[k])]

(***************************************************************************)
(* Bounds of the model                                                     *)
(***************************************************************************)
MaxRoutes == 2      \* route pairs in routes_id.json
MaxPrior == 1       \* rows the table holds before the run
MaxBatches == 2     \* full batches in an input of the loader
MaxNodes == 5       \* trips + legs + journeys of an enumerated response
MaxAmount == 5      \* amounts of the converter, in 1/AmtScale units
MaxRate == 3        \* rates of the converter, in halves

(***************************************************************************)
(* Inputs                                                                  *)
(***************************************************************************)
\* new Date() as a day number, and the date the searches ask for
Today == 20000
daysAhead == 1
getFutureDate(n) == Today + n

Slug(k) == <<"city", k>>

\* routes_id.json with n entries, after toSlug
RoutesFile(n) == [k \in 1 .. n |-> [fromSlug |-> Slug(k), toSlug |-> Slug(k + 1)]]

PricePaid == [originalCurrency |-> Some("thb"), currency |-> Some("USD"),
              originalAmount |-> Some(Amt(450)), amount |-> Some(Amt(12))]
PriceZero == [originalCurrency |-> None, currency |-> None,
              originalAmount |-> None, amount |-> Some(0)]
LegPrice == [originalCurrency |-> None, currency |-> Some("usd"),
             originalAmount |-> None, amount |-> Some(Amt(10))]

\* journeys: priced, with a zero price, priced by the leg, and lacking a date
JPaid(k) == [departure |-> Some(k * 10000 + 250), arrival |-> Some(k * 10000 + 5750),
             price |-> Some(PricePaid)]
JFree(k) == [departure |-> Some(k * 10000 + 250), arrival |-> Some(k * 10000 + 5750),
             price |-> Some(PriceZero)]
JLegPriced(k) == [departure |-> Some(k * 10000 + 250), arrival |-> Some(k * 10000 + 5750),
                  price |-> None]
JNoDeparture(k) == [departure |-> None, arrival |-> Some(k * 10000 + 5750),
                    price |-> Some(PricePaid)]
JNoArrival(k) == [departure |-> Some(k * 10000 + 250), arrival |-> None,
                  price |-> Some(PricePaid)]

Leg(type, journeys) == [type |-> Some(type), price |-> Some(LegPrice), journeys |-> journeys]
Trip(legs) == [legs |-> legs]

JsonTrips(items) ==
    [kind |-> "json",
     data |-> [json |-> "object", trips |-> Some([isArray |-> TRUE, items |-> items])]]

\* the outcomes of a search that carry no trips array
NoTripsOutcomes ==
    {[kind |-> "network_error", data |-> None],
     [kind |-> "http_error", data |-> None],
     [kind |-> "malformed_json", data |-> None],
     [kind |-> "json", data |-> [json |-> "null", trips |-> None]],
     [kind |-> "json", data |-> [json |-> "falsy", trips |-> None]],
     [kind |-> "json", data |-> [json |-> "object", trips |-> None]],
     [kind |-> "json",
      data |-> [json |-> "object", trips |-> Some([isArray |-> FALSE, items |-> <<>>])]]}

\* a response of a few journeys, and one of more journeys than a batch holds
SmallResponse ==
    JsonTrips(<<Trip(Some(<<Leg("Minivan", Some(<<JPaid(1), JFree(2), JNoArrival(3)>>))>>)),
                Trip(Some(<<>>))>>)
BigResponse ==
    JsonTrips(<<Trip(Some(<<Leg("Bus", Some([k \in 1 .. BATCH_SIZE + 1 |-> JPaid(k)]))>>))>>)

PipelineOutcomes == NoTripsOutcomes \cup {JsonTrips(<<>>), SmallResponse, BigResponse}

\* every response of at most MaxNodes trips, legs and journeys
JourneyKinds == {JPaid(1), JLegPriced(2), JNoDeparture(3), JNoArrival(4)}

RECURSIVE SeqsOfLen(_, _)
SeqsOfLen(S, n) ==
    IF n = 0 THEN {<<>>} ELSE {<<x>> \o r : x \in S, r \in SeqsOfLen(S, n - 1)}

LegsOfWeight(w) ==
    (IF w = 1 THEN {Leg("Ferry", None)} ELSE {})
        \cup {Leg("Minivan", Some(js)) : js \in SeqsOfLen(JourneyKinds, w - 1)}

RECURSIVE LegSeqsOfWeight(_)
LegSeqsOfWeight(w) ==
    IF w = 0 THEN {<<>>}
    ELSE UNION {{<<l>> \o r : l \in LegsOfWeight(k), r \in LegSeqsOfWeight(w - k)} :
                k \in 1 .. w}

TripsOfWeight(w) ==
    (IF w = 1 THEN {Trip(None)} ELSE {})
        \cup {Trip(Some(ls)) : ls \in LegSeqsOfWeight(w - 1)}

RECURSIVE TripSeqsOfWeight(_)
TripSeqsOfWeight(w) ==
    IF w = 0 THEN {<<>>}
    ELSE UNION {{<<t>> \o r : t \in TripsOfWeight(k), r \in TripSeqsOfWeight(w - k)} :
                k \in 1 .. w}

Responses == UNION {{JsonTrips(ts) : ts \in TripSeqsOfWeight(w)} : w \in 0 .. MaxNodes}

FetchOutcomes == NoTripsOutcomes \cup Responses

\* the live table of the rate service
LiveRates == [c \in {"THB", "USD"} |-> IF c = "THB" THEN 25000 ELSE 830000]

RateOutcomes ==
    {[kind |-> "network_error", rates |-> None, success |-> FALSE],
     [kind |-> "http_error", rates |-> None, success |-> FALSE],
     [kind |-> "malformed_json", rates |-> None, success |-> FALSE],
     [kind |-> "json", rates |-> None, success |-> TRUE],
     [kind |-> "json", rates |-> Some(LiveRates), success |-> FALSE],
     [kind |-> "json", rates |-> Some(LiveRates), success |-> TRUE]}

\* rows of an earlier run
OldRow(k) ==
    [route_url |-> Some(<<BASE_URL, Slug(k), Slug(k + 1)>>),
     departure_time |-> Some(k * 1000), arrival_time |-> Some(k * 1000 + 500),
     transport_type |-> "bus", price |-> Amt(300), price_inr |-> 750,
     currency |-> "THB", travel_date |-> Some(getFutureDate(0))]
PriorTables == {[k \in 1 .. n |-> OldRow(k)] : n \in 0 .. MaxPrior}

\* records handed to the loader: e eligible ones, and with a kind of defect named,
\* an ineligible record of that kind before each and after the last
GoodRecord(k) ==
    [route_url |-> Some(<<BASE_URL, Slug(1), Slug(2)>>),
     Date |-> Some(getFutureDate(daysAhead)),
     DepartureTime |-> Some(k), ArrivalTime |-> Some(k + 1),
     TransportType |-> "bus", Price |-> Some(Amt(450)), price_inr |-> 1125,
     currency |-> "THB"]
BadRecord(defect, k) ==
    CASE defect = "price0" -> [GoodRecord(k) EXCEPT !.Price = Some(0)]
      [] defect = "priceMissing" -> [GoodRecord(k) EXCEPT !.Price = None]
      [] defect = "priceNegative" -> [GoodRecord(k) EXCEPT !.Price = Some(0 - Amt(5))]
      [] defect = "noDeparture" -> [GoodRecord(k) EXCEPT !.DepartureTime = None]
      [] defect = "noArrival" -> [GoodRecord(k) EXCEPT !.ArrivalTime = None]
      [] defect = "noUrl" -> [GoodRecord(k) EXCEPT !.route_url = None]
Defects == {"price0", "priceMissing", "priceNegative", "noDeparture", "noArrival", "noUrl"}

LoadInput(e, defect) ==
    IF defect = "none"
    THEN [k \in 1 .. e |-> GoodRecord(k)]
    ELSE [k \in 1 .. 2 * e + 1 |-> IF k % 2 = 1 THEN BadRecord(defect, k) ELSE GoodRecord(k)]

EligibleCounts ==
    {b * BATCH_SIZE + d : b \in 0 .. MaxBatches, d \in {0, 1, BATCH_SIZE \div 2}}

LoadInputs == {LoadInput(e, d) : e \in EligibleCounts, d \in Defects \cup {"none"}}

\* inputs of the converter
Amounts == (0 - MaxAmount) .. MaxAmount
Currencies == {"thb", "THB", "usd", "INR", "inr", "XXX"}
RateValues == {k * (RateScale \div 2) : k \in 0 .. MaxRate}
RateTables ==
    UNION {[keys -> RateValues] : keys \in SUBSET {"THB", "USD", "INR"}}

(***************************************************************************)
(* State                                                                   *)
(***************************************************************************)
VARIABLES
    routesList,     \* the route pairs loaded at start-up
    pc,             \* main: "fetch", "await", "delay", "import", "done"; "idle" outside a run
    idx,            \* main: the pair the for-loop is at (1-based)
    allResults,     \* main: the accumulated records
    exchangeRates,  \* the module-level cache of getExchangeRates (None: null)
    exitCode,       \* None while the process runs, then Some(code)
    fetchLog,       \* the pairs a search request was sent for, in order
    delays,         \* the inter-request delays that have elapsed
    lastCall,       \* the fetchRoutes call of this iteration: its input and result
    failedPairs,    \* the pairs main logged as "Error fetching ...", in order
    rateContacts,   \* GETs sent to the rate service
    ratesReturned,  \* the tables the calls of getExchangeRates returned, in order
    lpc,            \* insertRecords: "idle", "connect", "truncate", "insert",
                    \*   "release", "returned", "thrown"
    records,        \* insertRecords: its argument
    validTrips,     \* insertRecords: the filtered records
    i,              \* insertRecords: the loop offset
    imported,       \* insertRecords: the records inserted
    skipped,        \* insertRecords: the count logged as skipped
    failed,         \* insertRecords: an error is propagating
    conn,           \* the client: "new", "open", "ended"
    connectCalls,   \* calls of client.connect()
    endCalls,       \* calls of client.end()
    statements,     \* the statements sent, in order: [op, rows, ok, conn]
    table,          \* the rows of bookaway_trips
    priorTable,     \* the rows of bookaway_trips when the process started
    conv            \* the converter call made: its input and output

vars == <<routesList, pc, idx, allResults, exchangeRates, exitCode, fetchLog, delays,
          lastCall, failedPairs, rateContacts, ratesReturned, lpc, records, validTrips, i,
          imported, skipped, failed, conn, connectCalls, endCalls, statements, table,
          priorTable, conv>>

mainVars == <<routesList, pc, idx, allResults, exitCode>>
fetchVars == <<exchangeRates, fetchLog, delays, lastCall, failedPairs, rateContacts,
               ratesReturned>>
loadVars == <<lpc, records, validTrips, i, imported, skipped, failed, conn, connectCalls,
              endCalls, statements, table, priorTable>>

\* nothing fetched, nothing loaded, the table as an earlier run left it
Blank ==
    /\ idx = 1
    /\ allResults = <<>>
    /\ exitCode = None
    /\ fetchLog = <<>>
    /\ delays = 0
    /\ lastCall = None
    /\ failedPairs = <<>>
    /\ rateContacts = 0
    /\ ratesReturned = <<>>
    /\ validTrips = <<>>
    /\ i = 0
    /\ imported = 0
    /\ skipped = 0
    /\ failed = FALSE
    /\ conn = "new"
    /\ connectCalls = 0
    /\ endCalls = 0
    /\ statements = <<>>
    /\ conv = None

(***************************************************************************)
(* main                                                                    *)
(***************************************************************************)
\* allResults after a failed pair, with the earlier records thrown away
accumulate_Reset(all, routeResults) ==
    IF routeResults.success THEN all \o routeResults.data ELSE <<>>

\* if (routeResults.success) allResults = allResults.concat(routeResults.data)
accumulate(all, routeResults) ==
    IF routeResults.success THEN all \o routeResults.data ELSE all

\* the loop takes the next pair and fetchRoutes sends its search request
SendRequest ==
    /\ pc = "fetch"
    /\ idx <= Len(routesList)
    /\ pc' = "await"
    /\ fetchLog' = Append(fetchLog, idx)
    /\ UNCHANGED <<routesList, idx, allResults, exitCode, exchangeRates, delays, lastCall,
                   failedPairs, rateContacts, ratesReturned, conv>>
    /\ UNCHANGED loadVars

\* the rest of fetchRoutes on what the search (and the rate service) answered
Receive(http, svc) ==
    LET r == routesList[idx]
        call == fetchRoutes(r.fromSlug, r.toSlug, getFutureDate(daysAhead), http,
                            exchangeRates, svc)
    IN  /\ lastCall' = Some([fromSlug |-> r.fromSlug, toSlug |-> r.toSlug, http |-> http,
                             cacheBefore |-> exchangeRates, result |-> call.result])
        /\ exchangeRates' = call.cache
        /\ rateContacts' = rateContacts + (IF call.contacted THEN 1 ELSE 0)
        /\ ratesReturned' = IF call.rates = None THEN ratesReturned
                            ELSE Append(ratesReturned, Val(call.rates))

\* fetchRoutes returns to the loop, which adds the records of a successful pair
ReceiveResponse ==
    /\ pc = "await"
    /\ \E http \in PipelineOutcomes, svc \in RateOutcomes : Receive(http, svc)
    /\ allResults' = accumulate(allResults, Val(lastCall').result)
    /\ failedPairs' = IF Val(lastCall').result.success THEN failedPairs
                      ELSE Append(failedPairs, idx)
    /\ pc' = "delay"
    /\ UNCHANGED <<routesList, idx, exitCode, fetchLog, delays, conv>>
    /\ UNCHANGED loadVars

\* await new Promise(resolve => setTimeout(resolve, 1500))
Delay ==
    /\ pc = "delay"
    /\ delays' = delays + 1
    /\ idx' = idx + 1
    /\ lastCall' = None
    /\ pc' = "fetch"
    /\ UNCHANGED <<routesList, allResults, exitCode, exchangeRates, fetchLog, failedPairs,
                   rateContacts, ratesReturned, conv>>
    /\ UNCHANGED loadVars

\* the test main makes once the loop is over
shouldImport_Always(all) == TRUE

shouldImport(all) == Len(all) > 0

\* after the loop: insertRecords(allResults) is called
StartImport ==
    /\ pc = "fetch"
    /\ idx > Len(routesList)
    /\ shouldImport(allResults)
    /\ records' = allResults
    /\ lpc' = "connect"
    /\ pc' = "import"
    /\ UNCHANGED <<routesList, idx, allResults, exitCode, conv>>
    /\ UNCHANGED fetchVars
    /\ UNCHANGED <<validTrips, i, imported, skipped, failed, conn, connectCalls, endCalls,
                   statements, table, priorTable>>

\* after the loop: "No data was scraped. Exiting without importing."
SkipImport ==
    /\ pc = "fetch"
    /\ idx > Len(routesList)
    /\ ~shouldImport(allResults)
    /\ pc' = "done"
    /\ exitCode' = Some(0)
    /\ UNCHANGED <<routesList, idx, allResults, conv>>
    /\ UNCHANGED fetchVars
    /\ UNCHANGED loadVars

\* the exit code once insertRecords has thrown, the catch of main left out
exitCodeAfter_NoCatch(state) == 0

\* insertRecords returned: the process ends; it threw: process.exit(1)
exitCodeAfter(state) == IF state = "thrown" THEN 1 ELSE 0

Exit ==
    /\ pc = "import"
    /\ lpc \in {"returned", "thrown"}
    /\ pc' = "done"
    /\ exitCode' = Some(exitCodeAfter(lpc))
    /\ UNCHANGED <<routesList, idx, allResults, conv>>
    /\ UNCHANGED fetchVars
    /\ UNCHANGED loadVars

(***************************************************************************)
(* insertRecords                                                           *)
(***************************************************************************)
\* where control goes when a step inside the try block throws: the catch rethrows
\* and the finally block runs
onError_NoFinally == "thrown"

onError == "release"

\* the for-loop test: another batch, or the end of the try block
loopTarget(offset, n) == IF offset < n THEN "insert" ELSE "release"

\* a failed INSERT swallowed inside the loop
onInsertError_Continue(offset, n) == IF offset + BATCH_SIZE < n THEN "insert" ELSE onError

\* a failed INSERT leaves the loop
onInsertError(offset, n) == onError

\* TRUNCATE that leaves the rows in place
truncated_Keep(rows) == rows

\* TRUNCATE TABLE bookaway_trips RESTART IDENTITY
truncated(rows) == <<>>

\* await client.connect(), and on success the filter and its three log lines
Connect ==
    /\ lpc = "connect"
    /\ connectCalls' = connectCalls + 1
    /\ \/ /\ conn' = "open"
          /\ validTrips' = SelectSeq(records, isValidTrip)
          /\ skipped' = Len(records) - Len(validTrips')
          /\ lpc' = "truncate"
          /\ UNCHANGED failed
       \/ /\ failed' = TRUE
          /\ lpc' = onError
          /\ UNCHANGED <<conn, validTrips, skipped>>
    /\ UNCHANGED <<records, i, imported, endCalls, statements, table, priorTable, conv>>
    /\ UNCHANGED mainVars
    /\ UNCHANGED fetchVars

\* await client.query("TRUNCATE ..."), then the loop is entered
Truncate ==
    /\ lpc = "truncate"
    /\ \/ /\ statements' = Append(statements, [op |-> "TRUNCATE", rows |-> <<>>,
                                               ok |-> TRUE, conn |-> conn])
          /\ table' = truncated(table)
          /\ i' = 0
          /\ imported' = 0
          /\ lpc' = loopTarget(0, Len(validTrips))
          /\ UNCHANGED failed
       \/ /\ statements' = Append(statements, [op |-> "TRUNCATE", rows |-> <<>>,
                                               ok |-> FALSE, conn |-> conn])
          /\ failed' = TRUE
          /\ lpc' = onError
          /\ UNCHANGED <<table, i, imported>>
    /\ UNCHANGED <<records, validTrips, skipped, conn, connectCalls, endCalls, priorTable,
                   conv>>
    /\ UNCHANGED mainVars
    /\ UNCHANGED fetchVars

\* one pass of the loop: the INSERT of the batch at offset i
InsertBatch ==
    /\ lpc = "insert"
    /\ LET batch == batchAt(validTrips, i)
       IN  \/ /\ statements' = Append(statements, [op |-> "INSERT", rows |-> rowsOf(batch),
                                                   ok |-> TRUE, conn |-> conn])
              /\ table' = table \o rowsOf(batch)
              /\ imported' = imported + Len(batch)
              /\ i' = i + BATCH_SIZE
              /\ lpc' = loopTarget(i', Len(validTrips))
              /\ UNCHANGED failed
           \/ /\ statements' = Append(statements, [op |-> "INSERT", rows |-> rowsOf(batch),
                                                   ok |-> FALSE, conn |-> conn])
              /\ failed' = TRUE
              /\ i' = IF onInsertError(i, Len(validTrips)) = "insert"
                      THEN i + BATCH_SIZE ELSE i
              /\ lpc' = onInsertError(i, Len(validTrips))
              /\ UNCHANGED <<table, imported>>
    /\ UNCHANGED <<records, validTrips, skipped, conn, connectCalls, endCalls, priorTable,
                   conv>>
    /\ UNCHANGED mainVars
    /\ UNCHANGED fetchVars

\* finally: await client.end(); then insertRecords returns, or throws the error
\* that was propagating (or the one client.end() raised)
Release ==
    /\ lpc = "release"
    /\ endCalls' = endCalls + 1
    /\ conn' = "ended"
    /\ \/ /\ lpc' = IF failed THEN "thrown" ELSE "returned"
          /\ UNCHANGED failed
       \/ /\ lpc' = "thrown"
          /\ failed' = TRUE
    /\ UNCHANGED <<records, validTrips, i, imported, skipped, connectCalls, statements,
                   table, priorTable, conv>>
    /\ UNCHANGED mainVars
    /\ UNCHANGED fetchVars

(***************************************************************************)
(* Single calls                                                            *)
(***************************************************************************)
\* one call of fetchRoutes
FetchOnce ==
    /\ pc = "call"
    /\ \E http \in FetchOutcomes, svc \in RateOutcomes : Receive(http, svc)
    /\ fetchLog' = Append(fetchLog, idx)
    /\ pc' = "idle"
    /\ UNCHANGED <<routesList, idx, allResults, exitCode, delays, failedPairs, conv>>
    /\ UNCHANGED loadVars

\* one call of convertToINR
Convert ==
    /\ conv = None
    /\ \E amount \in Amounts, currency \in Currencies, rates \in RateTables :
          conv' = Some([amount |-> amount, currency |-> currency, rates |-> rates,
                        out |-> convertToINR(amount, currency, rates)])
    /\ UNCHANGED mainVars
    /\ UNCHANGED fetchVars
    /\ UNCHANGED loadVars

(***************************************************************************)
(* Specifications                                                          *)
(***************************************************************************)
\* the process after start-up: cookies and routes loaded, nothing fetched
Init ==
    /\ Blank
    /\ routesList \in {RoutesFile(n) : n \in 0 .. MaxRoutes}
    /\ pc = "fetch"
    /\ exchangeRates = None
    /\ lpc = "idle"
    /\ records = <<>>
    /\ table \in PriorTables
    /\ priorTable = table

Next ==
    \/ SendRequest
    \/ ReceiveResponse
    \/ Delay
    \/ StartImport
    \/ SkipImport
    \/ Connect
    \/ Truncate
    \/ InsertBatch
    \/ Release
    \/ Exit

Spec == Init /\ [][Next]_vars

\* insertRecords called on a list of records
InitLoad ==
    /\ Blank
    /\ routesList = <<>>
    /\ pc = "import"
    /\ exchangeRates = None
    /\ lpc = "connect"
    /\ records \in LoadInputs
    /\ table \in PriorTables
    /\ priorTable = table

NextLoad ==
    \/ Connect
    \/ Truncate
    \/ InsertBatch
    \/ Release

SpecLoad == InitLoad /\ [][NextLoad]_vars

\* fetchRoutes called once, the rate cache empty or filled
InitFetch ==
    /\ Blank
    /\ routesList = RoutesFile(1)
    /\ pc = "call"
    /\ exchangeRates \in {None, Some(WithINR(LiveRates))}
    /\ lpc = "idle"
    /\ records = <<>>
    /\ table = <<>>
    /\ priorTable = table

NextFetch == FetchOnce

SpecFetch == InitFetch /\ [][NextFetch]_vars

\* convertToINR called once
InitConvert ==
    /\ Blank
    /\ routesList = <<>>
    /\ pc = "idle"
    /\ exchangeRates = None
    /\ lpc = "idle"
    /\ records = <<>>
    /\ table = <<>>
    /\ priorTable = table

NextConvert == Convert

SpecConvert == InitConvert /\ [][NextConvert]_vars

(***************************************************************************)
(* Properties                                                              *)
(***************************************************************************)
\* a record the loader is to load: a price above zero, both times and the url
Eligible(t) ==
    /\ t.Price # None
    /\ Val(t.Price) > 0
    /\ t.DepartureTime # None
    /\ t.ArrivalTime # None
    /\ t.route_url # None

EligibleOf(rs) == SelectSeq(rs, Eligible)

IsInsert(st) == st.op = "INSERT"
IsTruncate(st) == st.op = "TRUNCATE"
Inserts == SelectSeq(statements, IsInsert)
Truncates == SelectSeq(statements, IsTruncate)

CeilDiv(n, d) == (n + d - 1) \div d

\* the try block of insertRecords ran to its end: every statement succeeded
LoadRanThrough ==
    /\ lpc \in {"release", "returned", "thrown"}
    /\ statements # <<>>
    /\ \A j \in 1 .. Len(statements) : statements[j].ok

\* C1: insertRecords sends the TRUNCATE once, before the first INSERT; the k-th
\* INSERT carries the eligible records (k-1)*400+1 .. k*400 of the input, in their
\* order, so at most 400 and every one but the last exactly 400; and a load that
\* runs through has sent ceil(n/400) INSERTs for n eligible records.
C1_BatchedInsert ==
    LET e == EligibleOf(records)
        n == Len(e)
        ins == Inserts
    IN  /\ Len(Truncates) <= 1
        /\ statements # <<>> => IsTruncate(statements[1])
        /\ \A k \in 1 .. Len(ins) :
              /\ k <= CeilDiv(n, BATCH_SIZE)
              /\ Len(ins[k].rows) <= BATCH_SIZE
              /\ k < CeilDiv(n, BATCH_SIZE) => Len(ins[k].rows) = BATCH_SIZE
              /\ ins[k].rows =
                    rowsOf(SubSeq(e, (k - 1) * BATCH_SIZE + 1, Min(k * BATCH_SIZE, n)))
        /\ LoadRanThrough =>
              /\ Len(Truncates) = 1
              /\ Len(ins) = CeilDiv(n, BATCH_SIZE)

\* 1000 eligible records among 2001: three INSERTs of 400, 400 and 200 rows
C1_Witness ==
    /\ lpc = "returned"
    /\ Len(records) = 2001
    /\ Len(EligibleOf(records)) = 1000
    /\ Len(statements) = 4
    /\ IsTruncate(statements[1])
    /\ Len(statements[2].rows) = 400
    /\ Len(statements[3].rows) = 400
    /\ Len(statements[4].rows) = 200

\* a row whose record was not eligible
IneligibleRow(row) ==
    \/ row.price <= 0
    \/ row.departure_time = None
    \/ row.arrival_time = None
    \/ row.route_url = None

\* C3: no INSERT ever carries a row of an ineligible record, and after a load
\* that returns the table holds the eligible records of the input, each once and
\* in order, and the count logged as skipped is the total less the eligible.
C3_OnlyEligibleLoaded ==
    /\ \A j \in 1 .. Len(statements) :
          \A k \in 1 .. Len(statements[j].rows) : ~IneligibleRow(statements[j].rows[k])
    /\ lpc = "returned" =>
          /\ table = rowsOf(EligibleOf(records))
          /\ skipped = Len(records) - Len(EligibleOf(records))
          /\ imported = Len(EligibleOf(records))

\* a returned load of an input that held records with a zero price
C3_Witness ==
    /\ lpc = "returned"
    /\ \E k \in 1 .. Len(records) : records[k].Price = Some(0)
    /\ Len(table) = 401
    /\ skipped = 402

\* C5: insertRecords connects one client and ends it once on every path; no
\* statement is sent on a client that is not open, none once it was ended.
C5_OneConnectionReleasedOnce ==
    /\ connectCalls <= 1
    /\ endCalls <= 1
    /\ lpc \in {"returned", "thrown"} => endCalls = 1 /\ conn = "ended"
    /\ endCalls = 1 => lpc \in {"returned", "thrown"}
    /\ lpc \in {"truncate", "insert"} => conn = "open" /\ endCalls = 0
    /\ \A j \in 1 .. Len(statements) : statements[j].conn = "open"

\* the connect failed: nothing was sent, and the client was ended all the same
C5_Witness ==
    /\ lpc = "thrown"
    /\ connectCalls = 1
    /\ statements = <<>>
    /\ endCalls = 1
    /\ records # <<>>

\* a run that ended without error
EndedClean == pc = "done" /\ exitCode = Some(0)

\* every INSERT comes after a TRUNCATE that succeeded
InsertsFollowTruncate ==
    \A j \in 1 .. Len(statements) :
        IsInsert(statements[j]) => j > 1 /\ IsTruncate(statements[1]) /\ statements[1].ok

\* C2 as stated: on every run, one that scraped nothing included, the prior rows
\* are removed before any insert, and after a run that ends without error the
\* table holds the records of that run only.
C2_FullRefreshEveryRun ==
    /\ InsertsFollowTruncate
    /\ EndedClean => table = rowsOf(EligibleOf(allResults))

\* C2 amended: a run that scraped at least one record removes the prior rows
\* before any insert and, ending without error, leaves the table holding the
\* eligible records of that run only; a run that scraped nothing never calls the
\* loader, sends no statement and leaves the table as it was.
C2_RefreshWhenScraped ==
    /\ InsertsFollowTruncate
    /\ statements = <<>> => table = priorTable
    /\ (EndedClean /\ allResults # <<>>) =>
          /\ Len(Truncates) = 1
          /\ table = rowsOf(EligibleOf(allResults))
    /\ (pc = "done" /\ allResults = <<>>) =>
          /\ exitCode = Some(0)
          /\ connectCalls = 0
          /\ statements = <<>>
          /\ table = priorTable

\* a clean run over a table that held a row: the row is gone, the run's are there
C2_Witness ==
    /\ EndedClean
    /\ priorTable # <<>>
    /\ allResults # <<>>
    /\ table # <<>>
    /\ table = rowsOf(EligibleOf(allResults))
    /\ \A k \in 1 .. Len(table) : table[k].travel_date = Some(getFutureDate(daysAhead))

\* C4: once an INSERT has failed no further statement is sent; the error reaches
\* main only after client.end() was called; main then exits with code 1.
C4_FailedBatchAborts ==
    /\ \A j \in 1 .. Len(statements) : ~statements[j].ok => j = Len(statements)
    /\ lpc = "thrown" => endCalls = 1 /\ conn = "ended"
    /\ (failed /\ lpc # "thrown") => pc = "import" /\ exitCode = None
    /\ (pc = "done" /\ lpc = "thrown") => exitCode = Some(1)
    /\ exitCode = Some(1) => lpc = "thrown" /\ endCalls = 1

\* the second of three batches failed: the third was never sent, exit code 1
C4_Witness ==
    /\ pc = "done"
    /\ exitCode = Some(1)
    /\ Len(validTrips) > 2 * BATCH_SIZE
    /\ Len(statements) = 3
    /\ IsInsert(statements[3])
    /\ ~statements[3].ok
    /\ Len(table) = BATCH_SIZE
    /\ endCalls = 1

\* the pairs are taken in list order, one request each, a request only when the
\* delay after the one before has elapsed, and the failed ones are logged
C6_InOrder ==
    /\ fetchLog = [k \in 1 .. Len(fetchLog) |-> k]
    /\ Len(fetchLog) <= Len(routesList)
    /\ pc \in {"import", "done"} => Len(fetchLog) = Len(routesList)
    /\ pc = "fetch" => delays = Len(fetchLog) /\ idx = Len(fetchLog) + 1
    /\ pc \in {"await", "delay"} => delays = Len(fetchLog) - 1 /\ idx = Len(fetchLog)
    /\ pc = "await" => lastCall = None
    /\ \A k \in 1 .. Len(failedPairs) : failedPairs[k] \in 1 .. Len(fetchLog)

\* the step on which fetchRoutes returns: a failed pair changes no record, a
\* successful one appends its own; no other step of the fetch phase changes them
C6_Step ==
    /\ (pc = "await" /\ pc' = "delay") =>
          IF Val(lastCall').result.success
          THEN /\ allResults' = allResults \o Val(lastCall').result.data
               /\ failedPairs' = failedPairs
          ELSE /\ allResults' = allResults
               /\ failedPairs' = Append(failedPairs, idx)
    /\ ~(pc = "await" /\ pc' = "delay") => allResults' = allResults
    /\ Len(fetchLog') > Len(fetchLog) =>
          /\ pc = "fetch"
          /\ fetchLog' = Append(fetchLog, Len(fetchLog) + 1)

\* C6: main fetches the pairs one at a time in list order, each exactly once, the
\* next only after the previous call returned and the delay elapsed; a pair whose
\* fetch fails adds no record and leaves the accumulated ones as they were, and
\* the pairs after it are fetched all the same.
C6_SequentialSkipFailed == []C6_InOrder /\ [][C6_Step]_vars

\* pair 1 failed and pair 2 was fetched all the same, after one delay, and gave
\* its records
C6_Witness ==
    /\ pc = "delay"
    /\ fetchLog = <<1, 2>>
    /\ delays = 1
    /\ failedPairs = <<1>>
    /\ Val(lastCall).result.success
    /\ Len(allResults) = 2
    /\ allResults[1].route_url = Some(<<BASE_URL, Slug(2), Slug(3)>>)

\* C7 as stated: the rate service is contacted on the first call of
\* getExchangeRates only, and every later call returns the table the first
\* returned, live or fallback.
C7_RatesFixedForRun ==
    /\ rateContacts <= 1
    /\ \A k \in 1 .. Len(ratesReturned) : ratesReturned[k] = ratesReturned[1]

\* a 2xx answer whose body is an object with a trips array
HasTripsArray(http) ==
    /\ http.kind = "json"
    /\ http.data.json = "object"
    /\ http.data.trips # None
    /\ Val(http.data.trips).isArray

LegsOf(trip) == IF trip.legs = None THEN <<>> ELSE Val(trip.legs)
JourneysOf(leg) == IF leg.journeys = None THEN <<>> ELSE Val(leg.journeys)

\* the places <<trip, leg, journey>> of the journeys of a trips array
JourneyPlaces(trips) ==
    UNION {UNION {{<<t, l, j>> : j \in 1 .. Len(JourneysOf(LegsOf(trips[t])[l]))} :
                  l \in 1 .. Len(LegsOf(trips[t]))} :
           t \in 1 .. Len(trips)}

\* place a comes before place b in the trip, leg, journey traversal
Before(a, b) ==
    \/ a[1] < b[1]
    \/ a[1] = b[1] /\ a[2] < b[2]
    \/ a[1] = b[1] /\ a[2] = b[2] /\ a[3] < b[3]

RECURSIVE InTraversalOrder(_)
InTraversalOrder(S) ==
    IF S = {} THEN <<>>
    ELSE LET first == CHOOSE a \in S : \A b \in S : a = b \/ Before(a, b)
         IN  <<first>> \o InTraversalOrder(S \ {first})

\* the journeys with both dates, in traversal order
DatedJourneys(trips) ==
    LET at(p) == JourneysOf(LegsOf(trips[p[1]])[p[2]])[p[3]]
        dated(p) == at(p).departure # None /\ at(p).arrival # None
        places == SelectSeq(InTraversalOrder(JourneyPlaces(trips)), dated)
    IN  [k \in 1 .. Len(places) |-> at(places[k])]

\* C8 as stated: fetchRoutes returns success with the records for a 2xx answer
\* with a trips array (whatever the rate service did), success with no record
\* for every 2xx answer without a trips array, and a failure naming the error
\* and the route for an HTTP error status or a thrown exception.
C8_TaggedResult ==
    lastCall # None =>
        LET call == Val(lastCall)
            http == call.http
            res == call.result
        IN  /\ HasTripsArray(http) =>
                  /\ res.success
                  /\ Len(res.data) = Len(DatedJourneys(Val(http.data.trips).items))
            /\ (http.kind = "json" /\ ~HasTripsArray(http)) =>
                  /\ res.success
                  /\ res.data = <<>>
            /\ http.kind # "json" =>
                  /\ ~res.success
                  /\ res.error = http.kind
                  /\ res.route = <<call.fromSlug, call.toSlug>>

IsRounded(n, num, den) ==
    /\ 2 * den * n <= 2 * num + den
    /\ 2 * den * n > 2 * num - den

\* C10 as stated: round(amount) for INR whatever the table, 0 for the amount 0,
\* round(amount) for a currency without an entry, round(amount * rates[c]) for
\* every currency c with an entry.
C10_ConvertByCases ==
    conv # None =>
        LET amount == Val(conv).amount
            c == toUpperCase(Val(conv).currency)
            rates == Val(conv).rates
            out == Val(conv).out
        IN  IF c = "INR" THEN IsRounded(out, amount, AmtScale)
            ELSE IF amount = 0 THEN out = 0
            ELSE IF c \notin DOMAIN rates THEN IsRounded(out, amount, AmtScale)
            ELSE IsRounded(out, amount * rates[c], AmtScale * RateScale)

\* C10 amended: as stated, but round(amount * rates[c]) only for a currency
\* whose entry is not zero; an entry of zero counts as no entry and gives
\* round(amount).
C10_ConvertZeroRateAsMissing ==
    conv # None =>
        LET amount == Val(conv).amount
            c == toUpperCase(Val(conv).currency)
            rates == Val(conv).rates
            out == Val(conv).out
        IN  IF c = "INR" THEN IsRounded(out, amount, AmtScale)
            ELSE IF amount = 0 THEN out = 0
            ELSE IF c \notin DOMAIN rates THEN IsRounded(out, amount, AmtScale)
            ELSE IF rates[c] = 0 THEN IsRounded(out, amount, AmtScale)
            ELSE IsRounded(out, amount * rates[c], AmtScale * RateScale)

\* 2.5 units of "thb" at a rate of 1.5: 3.75, converted to 4
C10_Witness ==
    /\ conv # None
    /\ Val(conv).amount = 5
    /\ Val(conv).currency = "thb"
    /\ "THB" \in DOMAIN Val(conv).rates
    /\ Val(conv).rates["THB"] = 15000
    /\ Val(conv).out = 4

\* the rows of the table that the table held before the load
PriorRowsLeft == {j \in 1 .. Len(table) : \E p \in 1 .. Len(priorTable) : table[j] = priorTable[p]}

\* C11: from the failure of the k-th INSERT on (through the finally block and the
\* throw to the caller) the table holds exactly the rows of the INSERTs 1 .. k-1 of
\* this load, in their order, and no row it held before the load: the TRUNCATE and
\* the earlier INSERTs stay in effect, and nothing is sent after the failure.
C11_FailedLoadKeepsEarlierBatches ==
    \A k \in 1 .. Len(Inserts) :
        ~Inserts[k].ok =>
            /\ k = Len(Inserts)
            /\ lpc \in {"release", "thrown"}
            /\ table = rowsOf(SubSeq(EligibleOf(records), 1, (k - 1) * BATCH_SIZE))
            /\ Len(table) = (k - 1) * BATCH_SIZE
            /\ imported = (k - 1) * BATCH_SIZE
            /\ PriorRowsLeft = {}

\* over a table that held a row, the second INSERT failed and the load threw: the
\* table holds the 400 rows of the first batch, the earlier row is gone
C11_Witness ==
    /\ lpc = "thrown"
    /\ priorTable # <<>>
    /\ Len(Inserts) = 2
    /\ Inserts[1].ok
    /\ ~Inserts[2].ok
    /\ table = Inserts[1].rows
    /\ Len(table) = BATCH_SIZE
    /\ table # priorTable

====
